---- MODULE Spec2Model ----
(***************************************************************************)
(* The uTP connection multiplexer of src/src/socket.rs (UtpSocket): the    *)
(* event-loop task spawned by with_socket, the caller-side operations      *)
(* (connect, connect_with_cid, cid, accept, accept_with_cid), and the      *)
(* Stream collaborator seen through its three channels.                    *)
(*                                                                         *)
(* Atomicity follows the locks of the source: one step is one critical     *)
(* section of the RwLock over conns together with the task-local work      *)
(* around it.  A check under conns.read() and the insertion under a later  *)
(* conns.write() are two steps.                                            *)
(***************************************************************************)
EXTENDS Integers, Sequences, FiniteSets, Bags, TLC

\* ------------------------------------------------------------------ bounds
\* inputs taken from outside the multiplexer: datagrams handed over by the socket, calls
\* of the public API, and Outgoing events enqueued by Streams
MaxInputs == 3
\* packets of a flood that may wait on a Stream's channel before the Stream reads them
MaxQueued == 2

\* ------------------------------------------------------- program constants
\* connection ids are u16: wrapping_add / wrapping_sub work modulo 2^16
W == 65536

\* ------------------------------------------------------------ input domains
PacketTypes == {"Syn", "State", "Data", "Fin", "Reset"}
\* conn_id values carried by inbound packets (both ends of the u16 range)
PktIds == {0, 65535}
\* values rand::random::<u16>() yields in generate_cid
GenIds == {0, 65535}
\* values thread_rng().gen_range(0..=65535) yields for a RESET's seq_num
RandSeqs == {0, 65535}

\* the sum is not reduced to 16 bits
wrapping_add_unwrapped(x, y) == x + y

wrapping_add(x, y) == (x + y) % W
wrapping_sub(x, y) == (x + W - y) % W

ConnectionId(send, recv, peer) == [send |-> send, recv |-> recv, peer |-> peer]

Packet(type, conn_id, seq_num) == [type |-> type, conn_id |-> conn_id, seq_num |-> seq_num]

\* the datagrams the peers send to this endpoint: from A a SYN at either end of the u16
\* range and one packet of every other type, from B a SYN and a Data packet
Datagrams ==
    {[packet |-> Packet("Syn", c, 1), src |-> "A"] : c \in PktIds}
    \cup {[packet |-> Packet(ty, 0, 1), src |-> "A"] : ty \in PacketTypes \ {"Syn"}}
    \cup {[packet |-> Packet("Syn", 65535, 1), src |-> "B"],
          [packet |-> Packet("Data", 0, 1), src |-> "B"]}

\* the peers the application opens connections to and asks cids for
CallPeers == {"A"}

\* cids the application passes to accept_with_cid and connect_with_cid
CallCids == {ConnectionId(65535, 0, "A"), ConnectionId(1, 0, "A")}

\* map helpers (HashMap / HashMapDelay insert and remove)
Put(m, k, v) == [x \in DOMAIN m \cup {k} |-> IF x = k THEN v ELSE m[x]]
Remove(m, k) == [x \in DOMAIN m \ {k} |-> m[x]]
EmptyMap == [x \in {} |-> 0]

\* --------------------------------------------------------- cid derivation
cid_from_packet(packet, src, id_type) ==
    CASE id_type = "RecvId" ->
           IF packet.type = "Syn"
           THEN ConnectionId(packet.conn_id, wrapping_add(packet.conn_id, 1), src)
           ELSE ConnectionId(wrapping_sub(packet.conn_id, 1), packet.conn_id, src)
      [] id_type = "SendIdWeInitiated" ->
           ConnectionId(wrapping_add(packet.conn_id, 1), packet.conn_id, src)
      [] id_type = "SendIdPeerInitiated" ->
           ConnectionId(packet.conn_id, wrapping_sub(packet.conn_id, 1), src)

\* ------------------------------------------------------------------- state
VARIABLES
    conns,                \* Arc<RwLock<HashMap<ConnectionId, ConnChannel>>>: cid -> stream id
    awaiting,             \* HashMapDelay<ConnectionId, Accept>: cid -> accept id
    incoming_conns,       \* HashMapDelay<ConnectionId, Packet>: cid -> buffered SYN
    accepts_rx,           \* inbox of accept(): accept ids
    accepts_with_cid_rx,  \* inbox of accept_with_cid(): <<accept id, cid>>
    socket_event_rx,      \* inbox of SocketEvent, shared by every Stream and the loop
    streams,              \* every UtpStream constructed so far, by stream id
    chans,                \* per stream: the StreamEvent::Incoming sent on its ConnChannel
    replies,              \* per accept id: what was sent on its oneshot reply slot
    dropped_slots,        \* accept ids whose reply slot was dropped without a send
    loop,                 \* the event-loop task: at the select, or inside select_accept_helper
    callers,              \* bag of caller tasks inside connect / connect_with_cid / cid
    sent,                 \* datagrams socket.send_to accepted
    reserved,             \* cids returned by cid(peer, true): "fresh" until some insert uses them
    nInputs,              \* inputs taken so far
    last                  \* the silent outcome of the step just taken, if it had one

vars == <<conns, awaiting, incoming_conns, accepts_rx, accepts_with_cid_rx,
          socket_event_rx, streams, chans, replies, dropped_slots, loop, callers,
          sent, reserved, nInputs, last>>

maps == <<conns, awaiting, incoming_conns>>
inboxes == <<accepts_rx, accepts_with_cid_rx, socket_event_rx>>
slots == <<replies, dropped_slots>>

\* last names the step just taken only when the step leaves no other trace in the state
\* (an error returned to a caller, a packet dropped); otherwise it is Quiet
Last(op, k) == [op |-> op, cid |-> k]
Quiet == Last("-", <<>>)

\* UtpStream::new(cid, config, syn, socket_events, events_rx, connected_tx); accept is
\* the Accept handed to await_connected with it (0: none, the stream of a connect);
\* via names the operation that constructed it
Stream(k, syn, accept, via) ==
    [cid |-> k, syn |-> syn, accept |-> accept, via |-> via, forwarded |-> FALSE,
     shutdown |-> "no"]

Outgoing(packet, dst, from) ==
    [type |-> "Outgoing", packet |-> <<packet>>, dst |-> dst, cid |-> <<>>, from |-> from]
Shutdown(k, from) ==
    [type |-> "Shutdown", packet |-> <<>>, dst |-> "", cid |-> <<k>>, from |-> from]

LoopSelect == [pc |-> "select", op |-> "", cid |-> <<>>, syn |-> <<>>, accept |-> 0]

\* a caller task between two of its steps
Caller(pc, op, peer, is_initiator, k) ==
    [pc |-> pc, op |-> op, peer |-> peer, is_initiator |-> is_initiator, cid |-> k]

Init ==
    /\ conns = EmptyMap
    /\ awaiting = EmptyMap
    /\ incoming_conns = EmptyMap
    /\ accepts_rx = <<>>
    /\ accepts_with_cid_rx = <<>>
    /\ socket_event_rx = <<>>
    /\ streams = <<>>
    /\ chans = <<>>
    /\ replies = <<>>
    /\ dropped_slots = {}
    /\ loop = LoopSelect
    /\ callers = EmptyBag
    /\ sent = <<>>
    /\ reserved = EmptyMap
    /\ nInputs = 0
    /\ last = Quiet

\* an insertion into conns uses up a reservation made by cid()
Consume(k) == IF k \in DOMAIN reserved THEN Put(reserved, k, "consumed") ELSE reserved

\* -------------------------------------------------- event loop: recv_from
\* the probe of acc_cid left out
Lookup_without_acc_cid(acc_cid, we_init_cid, peer_init_cid) ==
    IF we_init_cid \in DOMAIN conns THEN <<conns[we_init_cid]>>
    ELSE IF peer_init_cid \in DOMAIN conns THEN <<conns[peer_init_cid]>>
    ELSE <<>>

\* the probes in another order: we_init_cid before acc_cid
Lookup_we_init_first(acc_cid, we_init_cid, peer_init_cid) ==
    IF we_init_cid \in DOMAIN conns THEN <<conns[we_init_cid]>>
    ELSE IF acc_cid \in DOMAIN conns THEN <<conns[acc_cid]>>
    ELSE IF peer_init_cid \in DOMAIN conns THEN <<conns[peer_init_cid]>>
    ELSE <<>>

\* conns.get(&acc_cid).or_else(|| conns.get(&we_init_cid)).or_else(|| conns.get(&peer_init_cid))
Lookup(acc_cid, we_init_cid, peer_init_cid) ==
    IF acc_cid \in DOMAIN conns THEN <<conns[acc_cid]>>
    ELSE IF we_init_cid \in DOMAIN conns THEN <<conns[we_init_cid]>>
    ELSE IF peer_init_cid \in DOMAIN conns THEN <<conns[peer_init_cid]>>
    ELSE <<>>

\* std::matches!(packet.packet_type(), PacketType::Syn)
IsSyn(packet) == packet.type = "Syn"

\* the key derived as for a packet of an established connection
SynCid_as_for_non_syn(packet, src) ==
    ConnectionId(wrapping_sub(packet.conn_id, 1), packet.conn_id, src)

\* the key a SYN is accepted or buffered under
SynCid(packet, src) == cid_from_packet(packet, src, "RecvId")

\* a RESET is answered like any other packet
WantsReset_always(packet) == TRUE

\* packet.packet_type() != PacketType::Reset: don't send a reset if we are receiving one
WantsReset(packet) == packet.type # "Reset"

\* PacketBuilder::new(PacketType::Reset, packet.conn_id(), now_micros(), 100_000, random_seq_num)
ResetPacket(packet, random_seq_num) == Packet("Reset", packet.conn_id, random_seq_num)

\* the event jumps the queue of the channel
ChannelSend_at_front(ch, event) == <<event>> \o ch

\* conn.send(StreamEvent::Incoming(packet)) on an unbounded mpsc channel: first in,
\* first out
ChannelSend(ch, event) == Append(ch, event)

\* the datagram does not decode: warn and continue
recv_undecodable ==
    /\ loop.pc = "select"
    /\ nInputs < MaxInputs
    /\ nInputs' = nInputs + 1
    /\ last' = Quiet
    /\ UNCHANGED <<maps, inboxes, streams, chans, slots, loop, callers, sent, reserved>>

\* the whole inbound-datagram branch, under one conns.write() guard
recv_from(packet, src, random_seq_num) ==
    /\ loop.pc = "select"
    /\ nInputs < MaxInputs
    /\ nInputs' = nInputs + 1
    /\ LET peer_init_cid == cid_from_packet(packet, src, "SendIdPeerInitiated")
           we_init_cid == cid_from_packet(packet, src, "SendIdWeInitiated")
           acc_cid == cid_from_packet(packet, src, "RecvId")
           conn == Lookup(acc_cid, we_init_cid, peer_init_cid)
           k == SynCid(packet, src)
           sid == Len(streams) + 1
       IN  IF conn # <<>>
           THEN /\ chans' = [chans EXCEPT ![conn[1]] =
                                 ChannelSend(@, [packet |-> packet, src |-> src])]
                /\ last' = Quiet
                /\ UNCHANGED <<maps, inboxes, streams, slots, reserved>>
           ELSE IF IsSyn(packet)
           THEN IF k \in DOMAIN awaiting
                THEN /\ awaiting' = Remove(awaiting, k)
                     /\ conns' = Put(conns, k, sid)
                     /\ streams' = Append(streams, Stream(k, <<packet>>, awaiting[k], "syn"))
                     /\ chans' = Append(chans, <<>>)
                     /\ reserved' = Consume(k)
                     /\ last' = Quiet
                     /\ UNCHANGED <<incoming_conns, inboxes, slots>>
                ELSE /\ incoming_conns' = Put(incoming_conns, k, packet)
                     /\ last' = Quiet
                     /\ UNCHANGED <<conns, awaiting, inboxes, streams, chans, slots,
                                    reserved>>
           ELSE IF WantsReset(packet)
           THEN /\ socket_event_rx' = Append(socket_event_rx,
                        Outgoing(ResetPacket(packet, random_seq_num), src, 0))
                /\ last' = Quiet
                /\ UNCHANGED <<maps, accepts_rx, accepts_with_cid_rx, streams, chans,
                               slots, reserved>>
           ELSE /\ last' = Last("reset_ignored", <<>>)
                /\ UNCHANGED <<maps, inboxes, streams, chans, slots, reserved>>
    /\ UNCHANGED <<loop, callers, sent>>

\* ------------------------------------- event loop: the lower select branches
\* tokio::select! { biased; ... } polls its branches top-down: a branch runs only when no
\* branch above it is ready.  The datagram branch depends on the network alone.
AcceptWithCidReady == accepts_with_cid_rx # <<>>
AcceptReady == accepts_rx # <<>> /\ DOMAIN incoming_conns # {}
SocketEventReady == socket_event_rx # <<>>

\* select_accept_helper, first half: conns.read().contains_key(&cid).  On a hit the
\* acceptor is refused; otherwise the task goes on to the insertion.
select_accept_helper_check(k, syn, accept, op) ==
    IF k \in DOMAIN conns
    THEN /\ replies' = [replies EXCEPT ![accept] = Append(@, "ConnectionIdUnavailable")]
         /\ loop' = LoopSelect
         /\ last' = Quiet
         /\ UNCHANGED dropped_slots
    ELSE /\ loop' = [pc |-> "helper", op |-> op, cid |-> <<k>>, syn |-> <<syn>>,
                     accept |-> accept]
         /\ last' = Quiet
         /\ UNCHANGED slots

\* the Stream of an accepted connection is constructed without its SYN
select_accept_helper_insert_without_syn ==
    /\ loop.pc = "helper"
    /\ LET k == loop.cid[1]
           sid == Len(streams) + 1
       IN  /\ conns' = Put(conns, k, sid)
           /\ streams' = Append(streams, Stream(k, <<>>, loop.accept, loop.op))
           /\ chans' = Append(chans, <<>>)
           /\ reserved' = Consume(k)
           /\ last' = Quiet
    /\ loop' = LoopSelect
    /\ UNCHANGED <<awaiting, incoming_conns, inboxes, slots, callers, sent, nInputs>>

\* select_accept_helper, second half: conns.write().insert, UtpStream::new, and the spawn
\* of await_connected
select_accept_helper_insert ==
    /\ loop.pc = "helper"
    /\ LET k == loop.cid[1]
           sid == Len(streams) + 1
       IN  /\ conns' = Put(conns, k, sid)
           /\ streams' = Append(streams, Stream(k, loop.syn, loop.accept, loop.op))
           /\ chans' = Append(chans, <<>>)
           /\ reserved' = Consume(k)
           /\ last' = Quiet
    /\ loop' = LoopSelect
    /\ UNCHANGED <<awaiting, incoming_conns, inboxes, slots, callers, sent, nInputs>>

\* an entry of an equal key stays, and the Accept that came later is dropped
AwaitingInsert_keeps_earlier(k, accept) ==
    /\ awaiting' = IF k \in DOMAIN awaiting THEN awaiting ELSE Put(awaiting, k, accept)
    /\ dropped_slots' = IF k \in DOMAIN awaiting THEN dropped_slots \cup {accept}
                        ELSE dropped_slots

\* HashMapDelay::insert(cid, accept): an entry of an equal key is replaced, the Accept it
\* held is dropped, and with it the unfired reply slot
AwaitingInsert(k, accept) ==
    /\ awaiting' = Put(awaiting, k, accept)
    /\ dropped_slots' = IF k \in DOMAIN awaiting THEN dropped_slots \cup {awaiting[k]}
                        ELSE dropped_slots

\* the acceptor is parked without a look at incoming
accepts_with_cid_recv_parks_always ==
    /\ loop.pc = "select"
    /\ AcceptWithCidReady
    /\ accepts_with_cid_rx' = Tail(accepts_with_cid_rx)
    /\ AwaitingInsert(Head(accepts_with_cid_rx)[2], Head(accepts_with_cid_rx)[1])
    /\ last' = Quiet
    /\ UNCHANGED <<conns, incoming_conns, accepts_rx, socket_event_rx, streams, chans,
                   replies, loop, callers, sent, reserved, nInputs>>

\* Some((accept, cid)) = accepts_with_cid_rx.recv()
accepts_with_cid_recv ==
    /\ loop.pc = "select"
    /\ AcceptWithCidReady
    /\ LET accept == Head(accepts_with_cid_rx)[1]
           k == Head(accepts_with_cid_rx)[2]
       IN  /\ accepts_with_cid_rx' = Tail(accepts_with_cid_rx)
           /\ IF k \in DOMAIN incoming_conns
              THEN /\ incoming_conns' = Remove(incoming_conns, k)
                   /\ select_accept_helper_check(k, incoming_conns[k], accept, "accept_with_cid")
                   /\ UNCHANGED awaiting
              ELSE /\ AwaitingInsert(k, accept)
                   /\ last' = Quiet
                   /\ UNCHANGED <<incoming_conns, replies, loop>>
    /\ UNCHANGED <<conns, accepts_rx, socket_event_rx, streams, chans, callers, sent,
                   reserved, nInputs>>

\* the acceptor is handed a buffered SYN that stays in incoming
accepts_recv_keeps_syn(k) ==
    /\ loop.pc = "select"
    /\ ~AcceptWithCidReady
    /\ AcceptReady
    /\ k \in DOMAIN incoming_conns
    /\ accepts_rx' = Tail(accepts_rx)
    /\ select_accept_helper_check(k, incoming_conns[k], Head(accepts_rx), "accept")
    /\ UNCHANGED <<maps, accepts_with_cid_rx, socket_event_rx, streams, chans, callers,
                   sent, reserved, nInputs>>

\* Some(accept) = accepts_rx.recv(), if !incoming_conns.is_empty(); the entry taken is
\* the first of the map's iteration, whose order the HashMap does not fix
accepts_recv(k) ==
    /\ loop.pc = "select"
    /\ ~AcceptWithCidReady
    /\ AcceptReady
    /\ k \in DOMAIN incoming_conns
    /\ accepts_rx' = Tail(accepts_rx)
    /\ incoming_conns' = Remove(incoming_conns, k)
    /\ select_accept_helper_check(k, incoming_conns[k], Head(accepts_rx), "accept")
    /\ UNCHANGED <<conns, awaiting, accepts_with_cid_rx, socket_event_rx, streams, chans,
                   callers, sent, reserved, nInputs>>

\* Some(event) = socket_event_rx.recv(); send_ok is the outcome of socket.send_to
socket_event_recv(send_ok) ==
    /\ loop.pc = "select"
    /\ ~AcceptWithCidReady
    /\ ~AcceptReady
    /\ SocketEventReady
    /\ LET event == Head(socket_event_rx)
       IN  /\ socket_event_rx' = Tail(socket_event_rx)
           /\ IF event.type = "Outgoing"
              THEN /\ sent' = IF send_ok
                              THEN Append(sent, [packet |-> event.packet[1], dst |-> event.dst])
                              ELSE sent
                   /\ last' = IF send_ok THEN Quiet ELSE Last("send_err", <<>>)
                   /\ UNCHANGED <<conns, streams>>
              ELSE /\ conns' = Remove(conns, event.cid[1])
                   /\ streams' = [streams EXCEPT ![event.from].shutdown = "done"]
                   /\ last' = Quiet
                   /\ UNCHANGED sent
    /\ UNCHANGED <<awaiting, incoming_conns, accepts_rx, accepts_with_cid_rx, chans, slots,
                   loop, callers, reserved, nInputs>>

\* the expired acceptor is fired but stays in the map
awaiting_next_keeps_entry(k) ==
    /\ loop.pc = "select"
    /\ ~AcceptWithCidReady
    /\ ~AcceptReady
    /\ ~SocketEventReady
    /\ k \in DOMAIN awaiting
    /\ replies' = [replies EXCEPT ![awaiting[k]] = Append(@, "TimedOut")]
    /\ last' = Quiet
    /\ UNCHANGED <<maps, inboxes, streams, chans, dropped_slots, loop, callers, sent,
                   reserved, nInputs>>

\* Some(Ok((cid, accept))) = awaiting.next(): the entry's delay has run out
awaiting_next(k) ==
    /\ loop.pc = "select"
    /\ ~AcceptWithCidReady
    /\ ~AcceptReady
    /\ ~SocketEventReady
    /\ k \in DOMAIN awaiting
    /\ awaiting' = Remove(awaiting, k)
    /\ replies' = [replies EXCEPT ![awaiting[k]] = Append(@, "TimedOut")]
    /\ last' = Quiet
    /\ UNCHANGED <<conns, incoming_conns, inboxes, streams, chans, dropped_slots, loop,
                   callers, sent, reserved, nInputs>>

\* the delay of a buffered SYN runs out and the entry stays in the map
incoming_conns_next_keeps_entry(k) ==
    /\ loop.pc = "select"
    /\ ~AcceptWithCidReady
    /\ ~AcceptReady
    /\ ~SocketEventReady
    /\ k \in DOMAIN incoming_conns
    /\ last' = Quiet
    /\ UNCHANGED <<maps, inboxes, streams, chans, slots, loop, callers, sent, reserved,
                   nInputs>>

\* Some(Ok((cid, _packet))) = incoming_conns.next(): the entry's delay has run out
incoming_conns_next(k) ==
    /\ loop.pc = "select"
    /\ ~AcceptWithCidReady
    /\ ~AcceptReady
    /\ ~SocketEventReady
    /\ k \in DOMAIN incoming_conns
    /\ incoming_conns' = Remove(incoming_conns, k)
    /\ last' = Quiet
    /\ UNCHANGED <<conns, awaiting, inboxes, streams, chans, slots, loop, callers, sent,
                   reserved, nInputs>>

\* ------------------------------------------------------------ caller tasks
\* accept(config): the Accept goes to the accepts inbox, the caller awaits its reply slot
accept ==
    /\ nInputs < MaxInputs
    /\ nInputs' = nInputs + 1
    /\ replies' = Append(replies, <<>>)
    /\ accepts_rx' = Append(accepts_rx, Len(replies) + 1)
    /\ last' = Quiet
    /\ UNCHANGED <<maps, accepts_with_cid_rx, socket_event_rx, streams, chans,
                   dropped_slots, loop, callers, sent, reserved>>

\* accept_with_cid(cid, config)
accept_with_cid(k) ==
    /\ nInputs < MaxInputs
    /\ nInputs' = nInputs + 1
    /\ replies' = Append(replies, <<>>)
    /\ accepts_with_cid_rx' = Append(accepts_with_cid_rx, <<Len(replies) + 1, k>>)
    /\ last' = Quiet
    /\ UNCHANGED <<maps, accepts_rx, socket_event_rx, streams, chans, dropped_slots, loop,
                   callers, sent, reserved>>

\* match stream_rx.await of accept and accept_with_cid: what the caller of Accept a has
\* observed so far.  A reply that was sent is returned; a slot whose sender was dropped
\* without a send yields Err(..), which the caller maps to TimedOut; otherwise the caller
\* is still waiting.
stream_rx_await(a) ==
    IF replies[a] # <<>> THEN <<replies[a][1]>>
    ELSE IF a \in dropped_slots THEN <<"TimedOut">>
    ELSE <<>>

\* a caller enters generate_cid: from connect (the ingress channel is supplied) or from
\* cid (it is not)
EnterGenerateCid(op, peer, is_initiator) ==
    /\ nInputs < MaxInputs
    /\ nInputs' = nInputs + 1
    /\ callers' = callers (+) SetToBag({Caller("generate_cid", op, peer, is_initiator, <<>>)})
    /\ last' = Quiet
    /\ UNCHANGED <<maps, inboxes, streams, chans, slots, loop, sent, reserved>>

connect(peer) == EnterGenerateCid("connect", peer, TRUE)

cid(peer, is_initiator) == EnterGenerateCid("cid", peer, is_initiator)

\* cid() hands generate_cid a channel as connect does
HasEventTx_always(c) == TRUE

\* generate_cid's event_tx: Some for connect, None for cid
HasEventTx(c) == c.op = "connect"

\* send of a generated cid from its recv
GenSend(recv, is_initiator) ==
    IF is_initiator THEN wrapping_add(recv, 1) ELSE wrapping_sub(recv, 1)

\* one turn of generate_cid's loop in caller c: draw recv, derive send, and look the cid
\* up under conns.read().  Taken: draw again.  Free: return it (cid) or go on to insert it
\* (connect).
generate_cid_check(c, recv) ==
    /\ BagIn(c, callers)
    /\ c.pc = "generate_cid"
    /\ LET k == ConnectionId(GenSend(recv, c.is_initiator), recv, c.peer)
       IN  IF k \in DOMAIN conns
           THEN /\ last' = Quiet
                /\ UNCHANGED <<callers, reserved>>
           ELSE IF HasEventTx(c)
           THEN /\ callers' = (callers (-) SetToBag({c})) (+)
                        SetToBag({[c EXCEPT !.pc = "generate_cid_insert", !.cid = <<k>>]})
                /\ last' = Quiet
                /\ UNCHANGED reserved
           ELSE /\ callers' = callers (-) SetToBag({c})
                /\ reserved' = IF c.is_initiator THEN Put(reserved, k, "fresh") ELSE reserved
                /\ last' = Quiet
    /\ UNCHANGED <<maps, inboxes, streams, chans, slots, loop, sent, nInputs>>

\* what connect and connect_with_cid do once the cid passed its check:
\* conns.write().insert(cid, events_tx), then UtpStream::new with no initial packet
InsertAndOpen(c) ==
    LET k == c.cid[1]
        sid == Len(streams) + 1
    IN  /\ conns' = Put(conns, k, sid)
        /\ streams' = Append(streams, Stream(k, <<>>, 0, c.op))
        /\ chans' = Append(chans, <<>>)
        /\ reserved' = Consume(k)
        /\ callers' = callers (-) SetToBag({c})
        /\ last' = Quiet
        /\ UNCHANGED <<awaiting, incoming_conns, inboxes, slots, loop, sent, nInputs>>

\* generate_cid's insertion under conns.write(), and the rest of connect
generate_cid_insert(c) ==
    /\ BagIn(c, callers)
    /\ c.pc = "generate_cid_insert"
    /\ InsertAndOpen(c)

\* connect_with_cid without the look-up in conns
connect_with_cid_unchecked(k) ==
    /\ nInputs < MaxInputs
    /\ nInputs' = nInputs + 1
    /\ callers' = callers (+) SetToBag({Caller("connect_with_cid_insert",
                       "connect_with_cid", k.peer, TRUE, <<k>>)})
    /\ last' = Quiet
    /\ UNCHANGED <<maps, inboxes, streams, chans, slots, loop, sent, reserved>>

\* connect_with_cid(cid, config) up to its check under conns.read()
connect_with_cid(k) ==
    /\ nInputs < MaxInputs
    /\ nInputs' = nInputs + 1
    /\ IF k \in DOMAIN conns
       THEN /\ last' = Last("connect_with_cid_unavailable", <<k>>)
            /\ UNCHANGED callers
       ELSE /\ callers' = callers (+) SetToBag({Caller("connect_with_cid_insert",
                              "connect_with_cid", k.peer, TRUE, <<k>>)})
            /\ last' = Quiet
    /\ UNCHANGED <<maps, inboxes, streams, chans, slots, loop, sent, reserved>>

\* connect_with_cid's insertion under conns.write(), and the Stream's construction
connect_with_cid_insert(c) ==
    /\ BagIn(c, callers)
    /\ c.pc = "connect_with_cid_insert"
    /\ InsertAndOpen(c)

\* num_connections(): conns.read().len()
num_connections == Cardinality(DOMAIN conns)

\* ------------------------------------------------- the Stream collaborator
\* what await_connected sends to accept.stream for each outcome of the connected one-shot
AwaitConnectedReply(res) ==
    CASE res = "Ok" -> "Ok"
      [] res = "Err" -> "Err"
      [] res = "Dropped" -> "ConnectionAborted"

\* the task spawned for an accepted Stream: the Stream fires its connected one-shot with
\* Ok or Err, or drops it, and the task forwards the outcome to the reply slot
await_connected(s, res) ==
    /\ s \in DOMAIN streams
    /\ streams[s].accept # 0
    /\ ~streams[s].forwarded
    /\ replies' = [replies EXCEPT ![streams[s].accept] = Append(@, AwaitConnectedReply(res))]
    /\ streams' = [streams EXCEPT ![s].forwarded = TRUE]
    /\ last' = Quiet
    /\ UNCHANGED <<maps, inboxes, chans, dropped_slots, loop, callers, sent, reserved,
                   nInputs>>

\* the Stream ends: SocketEvent::Shutdown(cid), once
stream_shutdown(s) ==
    /\ s \in DOMAIN streams
    /\ streams[s].shutdown = "no"
    /\ streams' = [streams EXCEPT ![s].shutdown = "sent"]
    /\ socket_event_rx' = Append(socket_event_rx, Shutdown(streams[s].cid, s))
    /\ last' = Quiet
    /\ UNCHANGED <<maps, accepts_rx, accepts_with_cid_rx, chans, slots, loop, callers, sent,
                   reserved, nInputs>>

\* the Stream transmits: SocketEvent::Outgoing((packet, peer))
stream_outgoing(s) ==
    /\ s \in DOMAIN streams
    /\ streams[s].shutdown = "no"
    /\ nInputs < MaxInputs
    /\ nInputs' = nInputs + 1
    /\ socket_event_rx' = Append(socket_event_rx,
           Outgoing(Packet("Data", streams[s].cid.send, 1), streams[s].cid.peer, s))
    /\ last' = Quiet
    /\ UNCHANGED <<maps, accepts_rx, accepts_with_cid_rx, streams, chans, slots, loop,
                   callers, sent, reserved>>

\* ------------------------------------------------------------ specification
Next ==
    \/ recv_undecodable
    \/ \E d \in Datagrams, random_seq_num \in RandSeqs :
           recv_from(d.packet, d.src, random_seq_num)
    \/ accepts_with_cid_recv
    \/ \E k \in DOMAIN incoming_conns : accepts_recv(k)
    \/ select_accept_helper_insert
    \/ \E send_ok \in BOOLEAN : socket_event_recv(send_ok)
    \/ \E k \in DOMAIN awaiting : awaiting_next(k)
    \/ \E k \in DOMAIN incoming_conns : incoming_conns_next(k)
    \/ accept
    \/ \E k \in CallCids : accept_with_cid(k)
    \/ \E peer \in CallPeers : connect(peer)
    \/ \E peer \in CallPeers, is_initiator \in BOOLEAN : cid(peer, is_initiator)
    \/ \E c \in BagToSet(callers), recv \in GenIds : generate_cid_check(c, recv)
    \/ \E c \in BagToSet(callers) : generate_cid_insert(c)
    \/ \E k \in CallCids : connect_with_cid(k)
    \/ \E c \in BagToSet(callers) : connect_with_cid_insert(c)
    \/ \E s \in DOMAIN streams, res \in {"Ok", "Err", "Dropped"} : await_connected(s, res)
    \/ \E s \in DOMAIN streams : stream_shutdown(s)
    \/ \E s \in DOMAIN streams : stream_outgoing(s)

Spec == Init /\ [][Next]_vars

\* the steps of the spawned event-loop task other than the receipt of a datagram.  The
\* task is always scheduled, and every delay of awaiting and incoming runs out, so a step
\* of the loop that stays possible is eventually taken.  The arrival of datagrams and the
\* calls of the API are up to the environment and carry no fairness.
LoopStep ==
    \/ accepts_with_cid_recv
    \/ \E k \in DOMAIN incoming_conns : accepts_recv(k)
    \/ select_accept_helper_insert
    \/ \E send_ok \in BOOLEAN : socket_event_recv(send_ok)
    \/ \E k \in DOMAIN awaiting : awaiting_next(k)
    \/ \E k \in DOMAIN incoming_conns : incoming_conns_next(k)

FairSpec == Spec /\ WF_vars(LoopStep)

\* ------------------------------------------ a flood at a known connection
\* A peer floods a connection this endpoint knows: for as long as the connection is in
\* conns, a datagram of the flood is waiting in the socket whenever the loop polls it.
FloodPacket == Packet("Data", 0, 1)
FloodSrc == "A"

\* socket.recv_from is ready at the poll
SocketPending ==
    \/ cid_from_packet(FloodPacket, FloodSrc, "RecvId") \in DOMAIN conns
    \/ cid_from_packet(FloodPacket, FloodSrc, "SendIdWeInitiated") \in DOMAIN conns
    \/ cid_from_packet(FloodPacket, FloodSrc, "SendIdPeerInitiated") \in DOMAIN conns

\* the inbound-datagram branch for a packet of the flood: it is routed to the known
\* connection's channel
recv_flood ==
    /\ loop.pc = "select"
    /\ SocketPending
    /\ LET conn == Lookup(cid_from_packet(FloodPacket, FloodSrc, "RecvId"),
                          cid_from_packet(FloodPacket, FloodSrc, "SendIdWeInitiated"),
                          cid_from_packet(FloodPacket, FloodSrc, "SendIdPeerInitiated"))
       IN  /\ Len(chans[conn[1]]) < MaxQueued
           /\ chans' = [chans EXCEPT ![conn[1]] =
                            ChannelSend(@, [packet |-> FloodPacket, src |-> FloodSrc])]
    /\ last' = Quiet
    /\ UNCHANGED <<maps, inboxes, streams, slots, loop, callers, sent, reserved, nInputs>>

\* the Stream takes the next event from its events_rx
stream_recv(s) ==
    /\ s \in DOMAIN chans
    /\ chans[s] # <<>>
    /\ chans' = [chans EXCEPT ![s] = Tail(@)]
    /\ last' = Quiet
    /\ UNCHANGED <<maps, inboxes, streams, slots, loop, callers, sent, reserved, nInputs>>

\* biased select: the branches below recv_from are polled only when recv_from is not
\* ready; a handler that has begun (select_accept_helper) runs to its end
FloodLoopStep ==
    \/ select_accept_helper_insert
    \/ /\ ~SocketPending
       /\ \/ accepts_with_cid_recv
          \/ \E k \in DOMAIN incoming_conns : accepts_recv(k)
          \/ \E send_ok \in BOOLEAN : socket_event_recv(send_ok)
          \/ \E k \in DOMAIN awaiting : awaiting_next(k)
          \/ \E k \in DOMAIN incoming_conns : incoming_conns_next(k)

\* datagrams arrive at the socket
Arrivals ==
    \/ recv_undecodable
    \/ \E d \in Datagrams, random_seq_num \in RandSeqs :
           recv_from(d.packet, d.src, random_seq_num)

\* the application calls the public API through its UtpSocket
ApiCalls ==
    \/ accept
    \/ \E k \in CallCids : accept_with_cid(k)
    \/ \E peer \in CallPeers : connect(peer)
    \/ \E peer \in CallPeers, is_initiator \in BOOLEAN : cid(peer, is_initiator)
    \/ \E k \in CallCids : connect_with_cid(k)

\* callers inside a call go on; Streams and the tasks spawned for them act
TaskSteps ==
    \/ \E c \in BagToSet(callers), recv \in GenIds : generate_cid_check(c, recv)
    \/ \E c \in BagToSet(callers) : generate_cid_insert(c)
    \/ \E c \in BagToSet(callers) : connect_with_cid_insert(c)
    \/ \E s \in DOMAIN streams, res \in {"Ok", "Err", "Dropped"} : await_connected(s, res)
    \/ \E s \in DOMAIN streams : stream_shutdown(s)
    \/ \E s \in DOMAIN streams : stream_outgoing(s)

\* what happens outside the event loop
Outside == Arrivals \/ ApiCalls \/ TaskSteps

FloodNext ==
    \/ recv_flood
    \/ \E s \in DOMAIN chans : stream_recv(s)
    \/ FloodLoopStep
    \/ Outside

\* the loop and the Streams are scheduled; the flood does not let up
FloodSpec ==
    /\ Init
    /\ [][FloodNext]_vars
    /\ WF_vars(FloodLoopStep)
    /\ WF_vars(recv_flood)
    /\ WF_vars(\E s \in DOMAIN chans : stream_recv(s))

\* ------------------------------------------------- drop of the multiplexer
\* StreamEvent::Shutdown on a Stream's channel, in the shape of the channel's entries
StreamShutdown == [packet |-> Packet("Shutdown", 0, 0), src |-> ""]

\* the owner of the UtpSocket once it has dropped it; it stays in callers as the record
\* that the handle, and with it accepts_tx and accepts_with_cid_tx, are gone
Owner == Caller("dropped", "drop", "", FALSE, <<>>)
Dropped == BagIn(Owner, callers)

\* impl Drop for UtpSocket: StreamEvent::Shutdown to every channel in conns.  No call
\* borrows the socket at that moment.  conns itself is left as it is, and the event loop,
\* which owns the socket, a clone of conns and a clone of socket_event_tx, is not told.
drop_socket ==
    /\ callers = EmptyBag
    /\ callers' = SetToBag({Owner})
    /\ chans' = IF DOMAIN conns = {} THEN chans
                ELSE [s \in DOMAIN chans |->
                         IF \E k \in DOMAIN conns : conns[k] = s
                         THEN ChannelSend(chans[s], StreamShutdown)
                         ELSE chans[s]]
    /\ last' = Quiet
    /\ UNCHANGED <<maps, inboxes, streams, slots, loop, sent, reserved, nInputs>>

\* after the drop nothing calls the API; datagrams, Streams and the loop go on
DropNext ==
    \/ drop_socket
    \/ ~Dropped /\ ApiCalls
    \/ Arrivals
    \/ TaskSteps
    \/ LoopStep

DropSpec == Init /\ [][DropNext]_vars /\ WF_vars(LoopStep)

\* ------------------------------------------------ errors of the socket
\* socket.recv_from yields Err: the branch's pattern Ok((n, src)) does not match, so the
\* select! drops the result and the handler does not run.  Nothing is logged and the loop
\* is not left.  Within that select! the branch stays disabled; recv_from is polled again
\* on the next iteration, that is once another branch has completed.  (The arrival of the
\* next datagram is not held back here until then.)
recv_error ==
    /\ loop.pc = "select"
    /\ nInputs < MaxInputs
    /\ nInputs' = nInputs + 1
    /\ last' = Last("recv_err", <<>>)
    /\ UNCHANGED <<maps, inboxes, streams, chans, slots, loop, callers, sent, reserved>>

ErrNext ==
    \/ recv_error
    \/ Next

ErrSpec == Init /\ [][ErrNext]_vars

\* ------------------------------------------------ connection-id arithmetic
\* u16 values the arithmetic is exercised on: both ends of the range, the values next to
\* them, and the values around every byte and sign boundary in between
ArithIds == {0, 1, 2, 127, 128, 255, 256, 257, 4095, 4096, 32767, 32768, 32769,
             65279, 65280, 65281, 65533, 65534, 65535}

\* the states the arithmetic starts from: the loop has decoded a datagram from src and
\* is about to derive its three cids, or a caller is inside generate_cid about to draw
ArithInit ==
    /\ conns = EmptyMap
    /\ awaiting = EmptyMap
    /\ incoming_conns = EmptyMap
    /\ accepts_rx = <<>>
    /\ accepts_with_cid_rx = <<>>
    /\ socket_event_rx = <<>>
    /\ streams = <<>>
    /\ chans = <<>>
    /\ replies = <<>>
    /\ dropped_slots = {}
    /\ sent = <<>>
    /\ reserved = EmptyMap
    /\ nInputs = 0
    /\ last = Quiet
    /\ \/ /\ callers = EmptyBag
          /\ \E ty \in PacketTypes, c \in ArithIds, src \in {"A", "B"} :
                 loop = [pc |-> "decoded", op |-> src, cid |-> <<>>,
                         syn |-> <<Packet(ty, c, 1)>>, accept |-> 0]
       \/ /\ loop = LoopSelect
          /\ \E is_initiator \in BOOLEAN :
                 callers = SetToBag({Caller("generate_cid", "cid", "A", is_initiator, <<>>)})

\* the three derivations of the inbound-datagram branch
derive_cids ==
    /\ loop.pc = "decoded"
    /\ LET packet == loop.syn[1]
           src == loop.op
           peer_init_cid == cid_from_packet(packet, src, "SendIdPeerInitiated")
           we_init_cid == cid_from_packet(packet, src, "SendIdWeInitiated")
           acc_cid == cid_from_packet(packet, src, "RecvId")
       IN  loop' = [loop EXCEPT !.pc = "derived",
                                !.cid = <<peer_init_cid, we_init_cid, acc_cid>>]
    /\ UNCHANGED <<maps, inboxes, streams, chans, slots, callers, sent, reserved, nInputs,
                   last>>

\* generate_cid draws recv and sets cid.send and cid.recv
generate_cid_draw(c, recv) ==
    /\ BagIn(c, callers)
    /\ c.pc = "generate_cid"
    /\ callers' = SetToBag({[c EXCEPT !.pc = "drawn",
                                      !.cid = <<ConnectionId(GenSend(recv, c.is_initiator),
                                                             recv, c.peer)>>]})
    /\ UNCHANGED <<maps, inboxes, streams, chans, slots, loop, sent, reserved, nInputs,
                   last>>

ArithNext ==
    \/ derive_cids
    \/ \E c \in BagToSet(callers), recv \in ArithIds : generate_cid_draw(c, recv)

ArithSpec == ArithInit /\ [][ArithNext]_vars

\* ================================================================== claims
Live(s) == streams[s].shutdown # "done"

\* C1: in every reachable state every Stream that has been constructed and whose
\* Shutdown(cid) has not been processed has its own cid mapped in conns to its own ingress
\* channel, so no two live connections share a ConnectionId and no insertion has
\* overwritten the entry of a live connection.
C1_LiveStreamsOwnTheirCid ==
    \A s \in DOMAIN streams :
        Live(s) => /\ streams[s].cid \in DOMAIN conns
                   /\ conns[streams[s].cid] = s

\* C2: a decoded datagram (SYN included) of which at least one of acc_cid, we_init_cid,
\* peer_init_cid is a key of conns is sent as Incoming to the channel of the first one
\* present, in that order, and to no other channel; nothing is added to awaiting or
\* incoming, conns gets no entry, no Stream is constructed and no RESET is enqueued.  So
\* every packet on a Stream's channel derives that Stream's cid under one of the three
\* derivations, and a SYN for an existing connection reaches its Stream.
\* (FirstPresent: the first of acc_cid, we_init_cid, peer_init_cid that is a key of conns)
FirstPresent(packet, src) ==
    LET acc_cid == cid_from_packet(packet, src, "RecvId")
        we_init_cid == cid_from_packet(packet, src, "SendIdWeInitiated")
        peer_init_cid == cid_from_packet(packet, src, "SendIdPeerInitiated")
    IN  IF acc_cid \in DOMAIN conns THEN <<acc_cid>>
        ELSE IF we_init_cid \in DOMAIN conns THEN <<we_init_cid>>
        ELSE IF peer_init_cid \in DOMAIN conns THEN <<peer_init_cid>>
        ELSE <<>>

C2_ChannelsAddressed ==
    \A s \in DOMAIN chans : \A i \in DOMAIN chans[s] :
        streams[s].cid \in {cid_from_packet(chans[s][i].packet, chans[s][i].src, ty) :
                               ty \in {"RecvId", "SendIdWeInitiated", "SendIdPeerInitiated"}}

C2_RoutedToFirstMatch ==
    [][/\ nInputs' # nInputs =>
             \A d \in Datagrams :
                 (FirstPresent(d.packet, d.src) # <<>>
                     /\ \E r \in RandSeqs : recv_from(d.packet, d.src, r)) =>
                     /\ chans' = [chans EXCEPT
                                      ![conns[FirstPresent(d.packet, d.src)[1]]] =
                                          Append(@, [packet |-> d.packet, src |-> d.src])]
                     /\ UNCHANGED <<conns, awaiting, incoming_conns, streams,
                                    socket_event_rx, replies>>
       /\ chans' # chans => C2_ChannelsAddressed']_vars

\* a SYN has been routed to the Stream of an existing connection
C2_Witness ==
    \E s \in DOMAIN chans : \E i \in DOMAIN chans[s] : chans[s][i].packet.type = "Syn"

\* the multiplexer still holds Accept a: in an inbox, parked in awaiting, inside
\* select_accept_helper, or with the await_connected task of its Stream
Held(a) ==
    \/ \E i \in DOMAIN accepts_rx : accepts_rx[i] = a
    \/ \E i \in DOMAIN accepts_with_cid_rx : accepts_with_cid_rx[i][1] = a
    \/ \E k \in DOMAIN awaiting : awaiting[k] = a
    \/ loop.accept = a
    \/ \E s \in DOMAIN streams : streams[s].accept = a /\ ~streams[s].forwarded

ReplyOutcomes == {"Ok", "Err", "ConnectionAborted", "TimedOut", "ConnectionIdUnavailable"}

\* C3 as claimed: the reply slot of every Accept request is fired exactly once: never
\* twice, and once the multiplexer no longer holds the request it has been fired.
C3_FiredExactlyOnce ==
    \A a \in DOMAIN replies :
        /\ Len(replies[a]) <= 1
        /\ ~Held(a) => Len(replies[a]) = 1

\* C3 as amended: a reply slot is never fired twice and never while the multiplexer still
\* holds the request; once the request is no longer held its slot was fired exactly once
\* (Ok, handshake error, ConnectionAborted, TimedOut or ConnectionIdUnavailable), or it
\* was a parked acceptor replaced by a later accept_with_cid of the same cid, whose slot
\* was dropped without a send.
C3_FiredOnceOrReplaced ==
    \A a \in DOMAIN replies :
        /\ Len(replies[a]) <= 1
        /\ \A i \in DOMAIN replies[a] : replies[a][i] \in ReplyOutcomes
        /\ Held(a) => Len(replies[a]) = 0 /\ a \notin dropped_slots
        /\ ~Held(a) => \/ Len(replies[a]) = 1 /\ a \notin dropped_slots
                       \/ Len(replies[a]) = 0 /\ a \in dropped_slots

\* one acceptor was replaced and dropped, another was fired
C3_Witness ==
    \E a \in dropped_slots : \E b \in DOMAIN replies : Len(replies[b]) = 1

\* C4 as claimed: in every reachable state no key of awaiting or of incoming is a key of
\* conns.
C4_PendingCidsNotInConns ==
    \A k \in DOMAIN awaiting \cup DOMAIN incoming_conns : k \notin DOMAIN conns

\* C4 as amended: the event loop buffers a SYN in incoming under K only when K is not a
\* key of conns, and when an acceptance inserts K into conns, K is a key of neither
\* awaiting nor incoming.  (K can be a key of both later: connect_with_cid and connect
\* insert without looking at awaiting or incoming, and accept_with_cid parks without
\* looking at conns.)
C4_DisjointWhenBufferedOrAccepted ==
    [][/\ incoming_conns' # incoming_conns =>
             \A k \in DOMAIN incoming_conns' :
                 (k \notin DOMAIN incoming_conns \/ incoming_conns'[k] # incoming_conns[k])
                     => k \notin DOMAIN conns /\ k \notin DOMAIN conns'
       /\ (Len(streams') > Len(streams) /\ streams'[Len(streams')].accept # 0) =>
             LET k == streams'[Len(streams')].cid
             IN  /\ k \in DOMAIN conns'
                 /\ k \notin DOMAIN awaiting'
                 /\ k \notin DOMAIN incoming_conns']_vars

\* a buffered SYN whose cid a later connect_with_cid put into conns
C4_Witness ==
    \E k \in DOMAIN incoming_conns : k \in DOMAIN conns

\* C5: an inbound SYN with conn_id c from S of which none of the three derived cids is in
\* conns is handled under K = (send = c, recv = c + 1 mod 2^16, peer = S): (a) if awaiting
\* holds an acceptor under K it is removed, K is inserted into conns and a Stream with cid
\* K, that acceptor and this SYN as initial packet is constructed; (b) otherwise the SYN
\* is stored in incoming under K.  Neither case enqueues a RESET or any other packet.
C5_SynPairedOrBuffered ==
    [][nInputs' # nInputs =>
          \A d \in Datagrams :
              (d.packet.type = "Syn" /\ FirstPresent(d.packet, d.src) = <<>>
                  /\ \E r \in RandSeqs : recv_from(d.packet, d.src, r)) =>
                  LET k == ConnectionId(d.packet.conn_id, (d.packet.conn_id + 1) % 65536,
                                        d.src)
                  IN  /\ IF k \in DOMAIN awaiting
                         THEN /\ awaiting' = Remove(awaiting, k)
                              /\ conns' = Put(conns, k, Len(streams) + 1)
                              /\ Len(streams') = Len(streams) + 1
                              /\ \A s \in DOMAIN streams : streams'[s] = streams[s]
                              /\ streams'[Len(streams')].cid = k
                              /\ streams'[Len(streams')].syn = <<d.packet>>
                              /\ streams'[Len(streams')].accept = awaiting[k]
                              /\ incoming_conns' = incoming_conns
                         ELSE /\ incoming_conns' = Put(incoming_conns, k, d.packet)
                              /\ UNCHANGED <<conns, awaiting, streams>>
                      /\ UNCHANGED <<socket_event_rx, sent, replies>>]_vars

\* a SYN with conn_id 0xFFFF met a parked acceptor: the Stream's cid is (0xFFFF, 0)
C5_Witness ==
    \E s \in DOMAIN streams :
        /\ streams[s].via = "syn"
        /\ streams[s].cid.send = 65535
        /\ streams[s].cid.recv = 0
        /\ streams[s].syn # <<>>

\* the Streams constructed for plain accept requests
AcceptedStreams == {s \in DOMAIN streams : streams[s].via = "accept"}

\* C6: a plain accept request leaves the accept inbox only in a state where incoming is
\* non-empty; the step removes exactly one entry (K, syn) from incoming and, if K is a key
\* of conns, refuses the acceptor, otherwise carries (K, syn, acceptor) into the insertion,
\* which puts K into conns and constructs a Stream with cid K, initial packet syn and that
\* acceptor.  A buffered SYN is paired with at most one acceptor: every accepted Stream
\* accounts for one accept call and one SYN arrival of its own.
C6_AcceptTakesOneBufferedSyn ==
    [][/\ Len(accepts_rx') < Len(accepts_rx) =>
             /\ DOMAIN incoming_conns # {}
             /\ accepts_rx' = Tail(accepts_rx)
             /\ \E k \in DOMAIN incoming_conns :
                    /\ incoming_conns' = Remove(incoming_conns, k)
                    /\ UNCHANGED <<conns, streams, awaiting>>
                    /\ IF k \in DOMAIN conns
                       THEN /\ loop' = LoopSelect
                            /\ replies' = [replies EXCEPT ![Head(accepts_rx)] =
                                               Append(@, "ConnectionIdUnavailable")]
                       ELSE /\ loop' = [pc |-> "helper", op |-> "accept", cid |-> <<k>>,
                                        syn |-> <<incoming_conns[k]>>,
                                        accept |-> Head(accepts_rx)]
                            /\ replies' = replies
       /\ (loop.pc = "helper" /\ loop' # loop) =>
             /\ loop' = LoopSelect
             /\ conns' = Put(conns, loop.cid[1], Len(streams) + 1)
             /\ Len(streams') = Len(streams) + 1
             /\ \A s \in DOMAIN streams : streams'[s] = streams[s]
             /\ streams'[Len(streams')].cid = loop.cid[1]
             /\ streams'[Len(streams')].syn = loop.syn
             /\ streams'[Len(streams')].accept = loop.accept
             /\ streams'[Len(streams')].via = loop.op
       /\ \A s \in DOMAIN streams' : s \notin DOMAIN streams =>
             (streams'[s].via = "accept" => loop.pc = "helper" /\ loop.op = "accept")
       /\ 2 * Cardinality(AcceptedStreams') <= nInputs']_vars

\* a SYN with conn_id 0 followed by accept gave a Stream with cid send = 0, recv = 1
C6_Witness ==
    \E s \in AcceptedStreams :
        /\ streams[s].cid.send = 0
        /\ streams[s].cid.recv = 1
        /\ streams[s].syn = <<Packet("Syn", 0, 1)>>
        /\ streams[s].accept # 0
        /\ conns[streams[s].cid] = s

\* acceptor a is parked in awaiting
Parked(a) == \E k \in DOMAIN awaiting : awaiting[k] = a

\* the keys a SYN can be buffered under
SynKeys == {SynCid(d.packet, d.src) : d \in {e \in Datagrams : IsSyn(e.packet)}}

C8_ResetForUnknownConn ==
    [][/\ nInputs' # nInputs =>
             \A d \in Datagrams :
                 (d.packet.type # "Syn" /\ FirstPresent(d.packet, d.src) = <<>>
                     /\ \E r \in RandSeqs : recv_from(d.packet, d.src, r)) =>
                     /\ UNCHANGED <<conns, awaiting, incoming_conns, streams, chans, sent>>
                     /\ IF d.packet.type \in {"State", "Data", "Fin"}
                        THEN /\ Len(socket_event_rx') = Len(socket_event_rx) + 1
                             /\ \A i \in DOMAIN socket_event_rx :
                                    socket_event_rx'[i] = socket_event_rx[i]
                             /\ LET event == socket_event_rx'[Len(socket_event_rx')]
                                IN  /\ event.type = "Outgoing"
                                    /\ event.packet[1].type = "Reset"
                                    /\ event.packet[1].conn_id = d.packet.conn_id
                                    /\ event.dst = d.src
                        ELSE socket_event_rx' = socket_event_rx
       /\ sent' # sent =>
             /\ socket_event_rx # <<>>
             /\ socket_event_rx' = Tail(socket_event_rx)
             /\ Head(socket_event_rx).type = "Outgoing"
             /\ sent' = Append(sent, [packet |-> Head(socket_event_rx).packet[1],
                                      dst |-> Head(socket_event_rx).dst])]_vars

\* a Data packet of an unknown connection from B was answered: one RESET with its conn_id
\* went out to B
C8_Witness ==
    /\ \E i \in DOMAIN sent :
           /\ sent[i].packet.type = "Reset"
           /\ sent[i].packet.conn_id = 0
           /\ sent[i].dst = "B"
    /\ Cardinality({i \in DOMAIN sent : sent[i].packet.type = "Reset"}) = 1
    /\ socket_event_rx = <<>>

\* C9: connect_with_cid(K, cfg) called while K is a key of conns returns "connection ID
\* unavailable", constructs no Stream and starts no insertion, and leaves conns (the
\* channel K maps to included), awaiting and incoming unchanged.
C9_ConnectWithCidCollision ==
    [][nInputs' # nInputs =>
          \A k \in CallCids :
              (k \in DOMAIN conns /\ connect_with_cid(k)) =>
                  /\ last' = Last("connect_with_cid_unavailable", <<k>>)
                  /\ UNCHANGED <<conns, awaiting, incoming_conns, streams, chans, callers>>
                  /\ conns'[k] = conns[k]]_vars

\* a connect_with_cid was refused while its cid mapped to a live Stream
C9_Witness ==
    /\ last.op = "connect_with_cid_unavailable"
    /\ last.cid[1] \in DOMAIN conns
    /\ Live(conns[last.cid[1]])

\* a connect_with_cid(k) step whose availability check passed
PassesCheck(k) ==
    callers' = callers (+) SetToBag({Caller("connect_with_cid_insert", "connect_with_cid",
                                            k.peer, TRUE, <<k>>)})

\* C10 as claimed: for a cid K returned by cid(peer, true), a later connect_with_cid(K, _)
\* passes the availability check if and only if no insertion into conns (by connect,
\* connect_with_cid or an accept pairing) used K since cid() returned it; otherwise it
\* fails with ConnectionIdUnavailable.
C10_PassesIffNotConsumed ==
    [][nInputs' # nInputs =>
          \A k \in CallCids :
              (k \in DOMAIN reserved /\ connect_with_cid(k)) =>
                  /\ PassesCheck(k) <=> reserved[k] = "fresh"
                  /\ ~PassesCheck(k) => last' = Last("connect_with_cid_unavailable", <<k>>)]_vars

\* C10 as amended: for a cid K returned by cid(peer, true), a later connect_with_cid(K, _)
\* passes the availability check if and only if K is not a key of conns at the check.  If
\* nothing used K since cid() returned it, K is not in conns and the call passes; if
\* something did, the call fails with ConnectionIdUnavailable unless a Shutdown(K) of a
\* Stream with cid K has been processed since, after which it passes again.  cid() itself
\* inserts nothing into conns and constructs no Stream.
C10_PassesIffAbsentFromConns ==
    [][/\ nInputs' # nInputs =>
             \A k \in CallCids :
                 (k \in DOMAIN reserved /\ connect_with_cid(k)) =>
                     /\ PassesCheck(k) <=> k \notin DOMAIN conns
                     /\ ~PassesCheck(k) =>
                            last' = Last("connect_with_cid_unavailable", <<k>>)
                     /\ reserved[k] = "fresh" => PassesCheck(k)
                     /\ (reserved[k] = "consumed" /\ PassesCheck(k)) =>
                            \E s \in DOMAIN streams :
                                streams[s].cid = k /\ streams[s].shutdown = "done"
       /\ \A c \in BagToSet(callers) :
              (c.op = "cid" /\ CopiesIn(c, callers') < CopiesIn(c, callers)) =>
                  /\ UNCHANGED <<conns, streams, chans>>
                  /\ c.pc = "generate_cid"
                  /\ callers' = callers (-) SetToBag({c})
                  /\ \A k \in DOMAIN reserved' :
                         (k \notin DOMAIN reserved \/ reserved'[k] # reserved[k]) =>
                             k \notin DOMAIN conns /\ k.send = (k.recv + 1) % 65536]_vars

\* a cid returned by cid(peer, true) was used, its Stream shut down, and a later
\* connect_with_cid of it passed the check
C10_Witness ==
    \E c \in BagToSet(callers) :
        /\ c.pc = "connect_with_cid_insert"
        /\ c.cid[1] \in DOMAIN reserved
        /\ reserved[c.cid[1]] = "consumed"
        /\ c.cid[1] \notin DOMAIN conns

\* the state both orders of C11 end in: K is a key of conns and of neither awaiting nor
\* incoming, and K maps to the newest Stream, which has cid K, the SYN as its initial
\* packet and acceptor a, whose reply slot is still unfired and bound to no other Stream
PairedState(k, a, syn) ==
    /\ k \in DOMAIN conns
    /\ k \notin DOMAIN awaiting
    /\ k \notin DOMAIN incoming_conns
    /\ conns[k] = Len(streams)
    /\ streams[conns[k]].cid = k
    /\ streams[conns[k]].syn = <<syn>>
    /\ streams[conns[k]].accept = a
    /\ streams[conns[k]].forwarded = FALSE
    /\ streams[conns[k]].shutdown = "no"
    /\ chans[conns[k]] = <<>>
    /\ replies[a] = <<>>
    /\ a \notin dropped_slots
    /\ Cardinality({s \in DOMAIN streams : streams[s].accept = a}) = 1

C12_NumConnectionsCountsLive ==
    /\ [][conns' # conns =>
             \/ /\ Len(streams') = Len(streams) + 1
                /\ conns' = Put(conns, streams'[Len(streams')].cid, Len(streams'))
             \/ /\ socket_event_rx # <<>>
                /\ Head(socket_event_rx).type = "Shutdown"
                /\ socket_event_rx' = Tail(socket_event_rx)
                /\ conns' = Remove(conns, Head(socket_event_rx).cid[1])
                /\ UNCHANGED <<awaiting, incoming_conns>>]_vars
    /\ [](num_connections = Cardinality({s \in DOMAIN streams : Live(s)}))

\* C13: whenever generate_cid, called from connect with an ingress channel, inserts
\* (cid -> channel) into conns, cid is not a key of conns at that instant: the insertion
\* replaces no entry, and no two connect calls in flight hold the same generated cid.
C13_GenerateCidInsertsAbsent ==
    [][\A c \in BagToSet(callers) :
           (c.pc = "generate_cid_insert" /\ generate_cid_insert(c)) =>
               /\ c.cid[1] \notin DOMAIN conns
               /\ CopiesIn(c, callers) = 1]_vars

\* C14: the packets on a Stream's ingress channel are a subsequence, in the same order, of
\* the datagrams dequeued from the socket: a channel changes only in the step that
\* dequeues a datagram, that step changes one channel only, and it puts that one datagram,
\* once, behind everything the channel already holds.  A channel starts empty.
C14_ChannelKeepsArrivalOrder ==
    [][chans' # chans =>
          \/ /\ Len(chans') = Len(chans) + 1
             /\ chans'[Len(chans')] = <<>>
             /\ \A s \in DOMAIN chans : chans'[s] = chans[s]
          \/ /\ nInputs' = nInputs + 1
             /\ DOMAIN chans' = DOMAIN chans
             /\ \E s \in DOMAIN chans, d \in Datagrams :
                    /\ \E r \in RandSeqs : recv_from(d.packet, d.src, r)
                    /\ chans'[s] = chans[s] \o <<d>>
                    /\ \A t \in DOMAIN chans \ {s} : chans'[t] = chans[t]]_vars

\* two different packets were routed to one Stream and sit on its channel, the later
\* behind the earlier
C14_Witness ==
    \E s \in DOMAIN chans :
        /\ Len(chans[s]) = 2
        /\ chans[s][1] # chans[s][2]
        /\ \A i \in DOMAIN chans[s] : FirstPresent(chans[s][i].packet, chans[s][i].src) = <<streams[s].cid>>

\* acceptor a waits in an inbox while incoming holds a SYN it could be paired with
PendingAcceptor(a) ==
    \/ /\ \E i \in DOMAIN accepts_rx : accepts_rx[i] = a
       /\ DOMAIN incoming_conns # {}
    \/ \E i \in DOMAIN accepts_with_cid_rx :
           /\ accepts_with_cid_rx[i][1] = a
           /\ accepts_with_cid_rx[i][2] \in DOMAIN incoming_conns

\* C15: under a sustained flood of packets addressed to a known connection, an acceptor
\* with a buffered SYN to pair with does not wait forever: the loop eventually takes it
\* from its inbox.
C15_FloodDoesNotStarveAccept ==
    \A a \in 1..MaxInputs : PendingAcceptor(a) ~> ~PendingAcceptor(a)

\* the event-loop task has left its loop
LoopExited == loop.pc = "exited"

\* C16: when the UtpSocket is dropped, StreamEvent::Shutdown is sent to every channel that
\* is in conns at that moment, and afterwards the event-loop task eventually exits.
C16_LoopExitsAfterDrop ==
    /\ [][(~Dropped /\ Dropped') =>
             \A s \in DOMAIN chans :
                 chans'[s] = IF \E k \in DOMAIN conns : conns[k] = s
                             THEN Append(chans[s], StreamShutdown)
                             ELSE chans[s]]_vars
    /\ Dropped ~> LoopExited

\* the three cids the lookup derives from a packet
DerivedCids(packet, src) ==
    {cid_from_packet(packet, src, "RecvId"),
     cid_from_packet(packet, src, "SendIdWeInitiated"),
     cid_from_packet(packet, src, "SendIdPeerInitiated")}

\* C17: in every reachable state and for every inbound packet, at most one of acc_cid,
\* we_init_cid and peer_init_cid derived from it is a key of conns.
C17_NoLookupTies ==
    \A d \in Datagrams :
        Cardinality(DerivedCids(d.packet, d.src) \cap DOMAIN conns) <= 1

\* C18: an error returned by recv_from bubbles out of the event loop, which stops
\* processing; an error returned by send_to while an Outgoing event is handled is
\* swallowed: the event is gone, the loop is still at its select, and conns, awaiting and
\* incoming are unchanged.
C18_RecvErrorStopsLoop ==
    [][/\ last'.op = "recv_err" => LoopExited'
       /\ last'.op = "send_err" =>
              /\ loop' = LoopSelect
              /\ socket_event_rx' = Tail(socket_event_rx)
              /\ UNCHANGED <<conns, awaiting, incoming_conns, sent>>]_vars

\* the successor and the predecessor of a u16 value, wrapping at the ends of the range
Succ16(c) == IF c = 65535 THEN 0 ELSE c + 1
Pred16(c) == IF c = 0 THEN 65535 ELSE c - 1

\* C19: connection-id arithmetic wraps at 16 bits and matches the derivation table, C = 0
\* and C = 0xFFFF included: from a packet with conn_id C and source S, RecvId is
\* (C, C+1) for a SYN and (C-1, C) for State, Data, Fin and Reset, SendIdWeInitiated is
\* (C+1, C) and SendIdPeerInitiated is (C, C-1), each with peer S; generate_cid sets
\* send = recv+1 for an initiator and send = recv-1 for a responder.
C19_CidArithmeticWraps ==
    /\ loop.pc = "derived" =>
           LET c == loop.syn[1].conn_id
               ty == loop.syn[1].type
               src == loop.op
           IN  /\ loop.cid[3] = IF ty = "Syn"
                                THEN [send |-> c, recv |-> Succ16(c), peer |-> src]
                                ELSE [send |-> Pred16(c), recv |-> c, peer |-> src]
               /\ loop.cid[2] = [send |-> Succ16(c), recv |-> c, peer |-> src]
               /\ loop.cid[1] = [send |-> c, recv |-> Pred16(c), peer |-> src]
               /\ \A i \in 1..3 : loop.cid[i].send \in 0..65535 /\ loop.cid[i].recv \in 0..65535
    /\ \A c \in BagToSet(callers) :
           c.pc = "drawn" =>
               /\ c.cid[1].peer = c.peer
               /\ c.cid[1].send \in 0..65535
               /\ c.cid[1].send = IF c.is_initiator THEN Succ16(c.cid[1].recv)
                                  ELSE Pred16(c.cid[1].recv)

\* a wrap-around of the table happened: conn_id 0xFFFF in a SYN gave recv 0, or
\* conn_id 0 in a Data packet gave send 0xFFFF
C19_Witness ==
    /\ loop.pc = "derived"
    /\ \/ loop.syn[1] = Packet("Syn", 65535, 1) /\ loop.cid[3].recv = 0
       \/ loop.syn[1] = Packet("Data", 0, 1) /\ loop.cid[3].send = 65535

\* C20: no ConnectionId is a key of both awaiting and incoming.  A step that parks an
\* acceptor under K (a new key, or a new acceptor under an old key) finds no SYN for K
\* in incoming, and a step that buffers a SYN under K (a new key, or a new packet under
\* an old key) finds no acceptor for K in awaiting.
C20_AwaitingIncomingDisjoint ==
    /\ [](DOMAIN awaiting \cap DOMAIN incoming_conns = {})
    /\ [][ /\ \A k \in DOMAIN awaiting' :
                  (k \notin DOMAIN awaiting \/ awaiting'[k] # awaiting[k])
                      => k \notin DOMAIN incoming_conns
           /\ \A k \in DOMAIN incoming_conns' :
                  (k \notin DOMAIN incoming_conns \/ incoming_conns'[k] # incoming_conns[k])
                      => k \notin DOMAIN awaiting ]_vars

\* an acceptor is parked while a SYN of another cid is buffered
C20_Witness ==
    /\ DOMAIN awaiting # {}
    /\ DOMAIN incoming_conns # {}

\* C21: awaiting holds at most one parked acceptor per cid.  When accept_with_cid(K) is
\* processed while an acceptor is parked under K and no SYN for K is buffered, the new
\* acceptor takes the entry of K and the earlier one's reply slot is dropped unfired in
\* that same step, so its caller, who was waiting, observes TimedOut from then on without
\* an expiry of the entry.  A replaced acceptor is never fired, parked or paired again:
\* the acceptor a SYN for K is paired with is the one awaiting holds, the latest.
C21_LatestAcceptorReplaces ==
    /\ [](/\ \A k1, k2 \in DOMAIN awaiting : awaiting[k1] = awaiting[k2] => k1 = k2
          /\ \A a \in dropped_slots :
                /\ stream_rx_await(a) = <<"TimedOut">>
                /\ replies[a] = <<>>
                /\ ~Held(a)
                /\ \A s \in DOMAIN streams : streams[s].accept # a)
    /\ [][ /\ \A k \in DOMAIN awaiting :
                  ( /\ loop.pc = "select"
                    /\ accepts_with_cid_rx # <<>>
                    /\ accepts_with_cid_rx' = Tail(accepts_with_cid_rx)
                    /\ Head(accepts_with_cid_rx)[2] = k
                    /\ k \notin DOMAIN incoming_conns )
                  => /\ DOMAIN awaiting' = DOMAIN awaiting
                     /\ awaiting' = [awaiting EXCEPT ![k] = Head(accepts_with_cid_rx)[1]]
                     /\ awaiting'[k] # awaiting[k]
                     /\ stream_rx_await(awaiting[k]) = <<>>
                     /\ stream_rx_await(Head(accepts_with_cid_rx)[1]) = <<>>
                     /\ dropped_slots' = dropped_slots \cup {awaiting[k]}
                     /\ awaiting[k] \notin dropped_slots
                     /\ Head(accepts_with_cid_rx)[1] \notin dropped_slots'
                     /\ UNCHANGED <<conns, incoming_conns, streams, replies>>
           /\ (Len(streams') = Len(streams) + 1 /\ streams'[Len(streams')].via = "syn")
                  => LET st == streams'[Len(streams')]
                     IN  /\ st.cid \in DOMAIN awaiting
                         /\ st.accept = awaiting[st.cid]
                         /\ st.accept \notin dropped_slots' ]_vars

\* an acceptor was replaced under its cid, and a SYN that came later was paired with the
\* acceptor that replaced it
C21_Witness ==
    \E a \in dropped_slots :
        \E s \in DOMAIN streams :
            /\ streams[s].via = "syn"
            /\ streams[s].accept > a
            /\ stream_rx_await(a) = <<"TimedOut">>

====
